---- MODULE Spec2Model ----
(***************************************************************************)
(* Model of the GDELT realtime polling scheduler (GDELTeda.realtimeEDA,    *)
(* GDELTeda.loopEDA), of the GDELTbase collaborators it drives              *)
(* (downloadGDELTFile, cleanFile, mongoFile), of the GKG compound-field     *)
(* converters nested in GDELTbase.cleanFile, of cleanFile on data on disk   *)
(* and of the data file operations that keep the localFiles index.          *)
(*                                                                         *)
(* Timestamps are minutes since 2021-09-08T00:00Z; '' (no timestamp        *)
(* remembered) is NoTime.  File names are pairs <<timestamp, extension>>.  *)
(* An exception leaving a method is a result of kind "raise"; the object   *)
(* keeps the fields assigned before the exception.                         *)
(***************************************************************************)
EXTENDS Integers, Sequences, FiniteSets, TLC

\* ------------------------------------------------------------------ bounds
MaxWindow == 2      \* largest 'window' argument passed to loopEDA
MaxCalls == 3       \* realtimeEDA calls made on the instance in one behaviour
MaxLen == 5         \* longest raw compound-field string given to a converter
MaxToneLen == 7     \* longest raw tone string given to toneSplitter
MaxRows == 2        \* most rows of a raw data file given to cleanFile
MaxCleanCalls == 2  \* cleanFile calls made on the instance in one behaviour

\* --------------------------------------------------------------- constants
NoTime == -1
DayMinutes == 1440
CadenceMinutes == 15
GapHourMinutes == 60
FilesPerDay == 93
FilesPerHour == 4

\* manifest timestamps the feed presents: 10:00, 22:30, 22:45 of day 0 and
\* 00:00 of day 1 (the feed has no snapshot between the last two)
ManifestTimes == {600, 1350, 1365, 1440}

Tables == {"events", "mentions", "gkg"}
DefaultTableList == <<"events", "mentions", "gkg">>
OtherTableList == <<"gkg">>

Hour(t) == (t % DayMinutes) \div 60
Minute(t) == t % 60

SeqRange(s) == {s[i] : i \in 1..Len(s)}

\* toolData['extensions'] with '.zip' removed, and cleanFile's rename
RawExt(table) ==
  CASE table = "events" -> "export.CSV"
    [] table = "gkg" -> "gkg.csv"
    [] table = "mentions" -> "mentions.CSV"

\* str.replace('.csv', '.json') for gkg, str.replace('.CSV', '.json') else
ReplaceExt(ext, table) ==
  IF table = "gkg"
    THEN (IF ext = "gkg.csv" THEN "gkg.json" ELSE ext)
    ELSE (CASE ext = "export.CSV" -> "export.json"
            [] ext = "mentions.CSV" -> "mentions.json"
            [] OTHER -> ext)

RawFileName(t, table) == <<t, RawExt(table)>>
CleanFileName(fileName, table) == <<fileName[1], ReplaceExt(fileName[2], table)>>

VARIABLES
  tableList,          \* self.tableList of the GDELTeda instance
  realtimeStarted,    \* self.realtimeStarted
  realtimeLooping,    \* self.realtimeLooping
  realtimeWindow,     \* self.realtimeWindow
  lastRealDatetime,   \* self.lastRealDatetime
  nextRealDatetime,   \* self.nextRealDatetime
  localFiles,         \* self.gBase.localFiles[table][state]
  realtimeColl,       \* localDb['collections']['realtime'][table] contents
  pc,                 \* position of the loopEDA call in flight, or "idle"
  loopReturn,         \* what the last ended loopEDA call returned
  cycle,              \* observations of the most recent realtimeEDA call
  run,                \* bookkeeping of the current / most recent run
  calls,              \* realtimeEDA calls made so far
  x, fn, y,           \* converter under test: input, converter name, output
  rawDisk,            \* raw data files on disk, per table and mode
  cleanDisk,          \* clean (JSON) files on disk, per table and mode
  cleanCall,          \* observations of the most recent cleanFile call
  cleanCalls,         \* cleanFile calls made so far
  wait,               \* observations of the most recent wait of loopEDA
  fileOp              \* observations of the most recent data file operation

schedVars == <<tableList, realtimeStarted, realtimeLooping, realtimeWindow,
               lastRealDatetime, nextRealDatetime, localFiles, realtimeColl,
               pc, loopReturn, cycle, run, calls, wait>>
codecVars == <<x, fn, y>>
cleanVars == <<rawDisk, cleanDisk, cleanCall, cleanCalls, fileOp>>
vars == <<tableList, realtimeStarted, realtimeLooping, realtimeWindow,
          lastRealDatetime, nextRealDatetime, localFiles, realtimeColl,
          pc, loopReturn, cycle, run, calls, x, fn, y,
          rawDisk, cleanDisk, cleanCall, cleanCalls, wait, fileOp>>

\* ------------------------------------------------------------ GDELTbase
isFileDownloaded(lf, fileName, table) ==
  \/ fileName \in SeqRange(lf[table].raw)
  \/ fileName \in SeqRange(lf[table].clean)
  \/ fileName \in SeqRange(lf[table].realtimeR)
  \/ fileName \in SeqRange(lf[table].realtimeC)

\* downloadGDELTFile(thisUrl, table, mode = 'realtime'); found = the URL
\* resolves (no HTTPError).  Returns the new index and the boolean result.
downloadGDELTFile(lf, fileName, table, found) ==
  IF isFileDownloaded(lf, fileName, table)
    THEN [lf |-> lf, ret |-> FALSE]
    ELSE IF ~found
      THEN [lf |-> lf, ret |-> FALSE]
      ELSE [lf |-> [lf EXCEPT ![table].realtimeR = Append(@, fileName)],
            ret |-> TRUE]

\* cleanFile(fileName, mode = 'realtime') on a well-formed raw file; the raw
\* file is on disk exactly when the download step indexed it
cleanFile(lf, fileName, table) ==
  LET cleanFileName == CleanFileName(fileName, table) IN
  IF cleanFileName \in SeqRange(lf[table].realtimeC)
    THEN [lf |-> lf, ret |-> FALSE]
    ELSE IF fileName \notin SeqRange(lf[table].realtimeR)
      THEN [lf |-> lf, ret |-> FALSE]
      ELSE [lf |-> [lf EXCEPT ![table].realtimeC = Append(@, cleanFileName)],
            ret |-> TRUE]

\* mongoFile(fileName, table, mode = 'realtime'); sinkUp = MongoDB answers
mongoFile(lf, coll, fileName, table, sinkUp) ==
  IF fileName \notin SeqRange(lf[table].realtimeC)
    THEN [coll |-> coll, ret |-> FALSE]
    ELSE IF sinkUp
      THEN [coll |-> [coll EXCEPT ![table] = Append(@, fileName[1])],
            ret |-> TRUE]
      ELSE [coll |-> coll, ret |-> FALSE]

\* ------------------------------------------------------------- realtimeEDA
Return(ok, tag) == [kind |-> "return", ok |-> ok, tag |-> tag]
Raise(exc) == [kind |-> "raise", ok |-> FALSE, tag |-> exc]
NoResult == [kind |-> "none", ok |-> FALSE, tag |-> ""]

\* the remaining-iterations bookkeeping at the top of realtimeEDA
DecrementWindow(w) ==
  IF w > 1 THEN w - 1
  ELSE IF w = 1 THEN w - 1
  ELSE w

\* the timing comparison against the remembered datetimes
Classify(thisDatetime, last, next) ==
  IF last # NoTime /\ next # NoTime
    THEN IF thisDatetime = last THEN "tooEarly"
         ELSE IF thisDatetime > next THEN "tooLate"
         ELSE "proceed"
    ELSE "proceed"

\* expected datetime of the next update and the 'inGap' flag
NextUpdate(thisDatetime) ==
  LET plain == thisDatetime + CadenceMinutes IN
  IF Hour(plain) > 22
    THEN [next |-> thisDatetime + GapHourMinutes, inGap |-> TRUE]
    ELSE [next |-> plain, inGap |-> FALSE]

\* the observations of one table once its download (dl), clean (cl) and
\* store (mg) steps have answered
TableDone(st, table, dl, cl, mg, doDrop) ==
  [st EXCEPT !.lf = cl.lf,
             !.coll = mg.coll,
             !.downloaded[table] = dl.ret,
             !.cleaned[table] = cl.ret,
             !.dropped[table] = doDrop,
             !.stored[table] = mg.ret]

\* the EDA report of the last iteration for one table
TableReport(st, table, sinkUp, lastRun) ==
  IF ~lastRun THEN st
  ELSE IF ~sinkUp THEN [st EXCEPT !.fault = "ServerSelectionTimeoutError"]
  \* no record: min() of the datetime column is NaT, NaT.strftime raises
  ELSE IF st.coll[table] = <<>> THEN [st EXCEPT !.fault = "ValueError"]
  ELSE [st EXCEPT !.reported[table] = TRUE]

\* the drop of the collection on a first iteration, the store and the report
TableStore(st, table, cleanFileName, dl, cl, sinkUp, lastRun, doDrop) ==
  IF doDrop /\ ~sinkUp
    THEN [st EXCEPT !.lf = cl.lf,
                    !.downloaded[table] = dl.ret,
                    !.cleaned[table] = cl.ret,
                    !.fault = "ServerSelectionTimeoutError"]
    ELSE TableReport(
           TableDone(st, table, dl, cl,
                     mongoFile(cl.lf,
                               IF doDrop THEN [st.coll EXCEPT ![table] = <<>>]
                                         ELSE st.coll,
                               cleanFileName, table, sinkUp),
                     doDrop),
           table, sinkUp, lastRun)

\* the clean step of one table, after its download step answered dl
TableClean(st, table, fileName, dl, sinkUp, lastRun, started) ==
  TableStore(st, table, CleanFileName(fileName, table), dl,
             cleanFile(dl.lf, fileName, table), sinkUp, lastRun, ~started)

\* the loop body for one table: download, clean, drop, store, report
TableBody(st, table, fileName, notFound, sinkUp, lastRun, started) ==
  TableClean(st, table, fileName,
             downloadGDELTFile(st.lf, fileName, table, table \notin notFound),
             sinkUp, lastRun, started)

\* the per-table loop for tl[i..]; st carries the index, the collections,
\* the per-table observations and the exception, if any
RECURSIVE TableLoop(_, _, _, _, _, _, _, _)
TableLoop(tl, i, st, thisDatetime, notFound, sinkUp, lastRun, started) ==
  IF i > Len(tl) \/ st.fault # ""
    THEN st
    ELSE TableLoop(tl, i + 1,
                   TableBody(st, tl[i], RawFileName(thisDatetime, tl[i]),
                             notFound, sinkUp, lastRun, started),
                   thisDatetime, notFound, sinkUp, lastRun, started)

NoTables == [t \in Tables |-> FALSE]

\* the fields of the GDELTeda instance and of its GDELTbase, as one value
Self == [realtimeStarted |-> realtimeStarted,
         realtimeLooping |-> realtimeLooping,
         realtimeWindow |-> realtimeWindow,
         lastRealDatetime |-> lastRealDatetime,
         nextRealDatetime |-> nextRealDatetime,
         lf |-> localFiles, coll |-> realtimeColl]

\* the instance and the observations once the table loop has ended in st
Worked(polled, st) ==
  [polled EXCEPT !.lf = st.lf, !.coll = st.coll,
                 !.downloaded = st.downloaded,
                 !.cleaned = st.cleaned,
                 !.dropped = st.dropped,
                 !.stored = st.stored,
                 !.reported = st.reported]

\* the end of realtimeEDA after the table loop: the exception of the
\* loop, the bookkeeping of a non-last iteration or that of the last one
Outcome(worked, fault, thisDatetime, lastRun, nu) ==
  IF fault # ""
    THEN [worked EXCEPT !.result = Raise(fault)]
  ELSE IF ~lastRun
    THEN [worked EXCEPT !.realtimeStarted = TRUE,
                        !.realtimeLooping = TRUE,
                        !.lastRealDatetime = thisDatetime,
                        !.nextRealDatetime = nu.next,
                        !.result = Return(TRUE, IF nu.inGap THEN "inGap"
                                                ELSE "continue")]
  ELSE [worked EXCEPT !.realtimeWindow = 0,
                      !.lastRealDatetime = NoTime,
                      !.nextRealDatetime = NoTime,
                      !.result = Return(TRUE, "finished")]

\* the datetime of the prior snapshot, formed from the manifest's: at 00:00
\* 'lastDatetime = lastDatetime - timedelta(hours = 1)' reads the name
\* before its first assignment
PriorDatetime(thisDatetime) ==
  IF Hour(thisDatetime) = 0 /\ Minute(thisDatetime) = 0
    THEN [exc |-> "UnboundLocalError", last |-> NoTime]
    ELSE [exc |-> "", last |-> thisDatetime - CadenceMinutes]

\* a timing check that lets the table loop run before it ends the call
TimingFailureAfterIngest(polled, st, cls) ==
  [Worked(polled, st) EXCEPT !.classified = cls, !.result = Raise("TypeError")]

\* the tooEarly / tooLate branches: the print indexes the method strftime
\* ('strftime[...]'), which raises TypeError before the return
TimingFailure(polled, st, cls) ==
  [polled EXCEPT !.classified = cls, !.result = Raise("TypeError")]

\* realtimeEDA(tl) on instance fields self, reading manifest timestamp
\* thisDatetime: the fields after the call, its result and what it did
realtimeEDA(self, tl, thisDatetime, notFound, sinkUp) ==
  LET before == [window |-> self.realtimeWindow,
                 started |-> self.realtimeStarted,
                 last |-> self.lastRealDatetime,
                 next |-> self.nextRealDatetime]
      base == [realtimeStarted |-> self.realtimeStarted,
               realtimeLooping |-> self.realtimeLooping,
               realtimeWindow |-> self.realtimeWindow,
               lastRealDatetime |-> self.lastRealDatetime,
               nextRealDatetime |-> self.nextRealDatetime,
               lf |-> self.lf, coll |-> self.coll,
               thisDatetime |-> thisDatetime, classified |-> "none",
               lastRun |-> FALSE, polled |-> FALSE,
               downloaded |-> NoTables, cleaned |-> NoTables,
               dropped |-> NoTables, stored |-> NoTables,
               reported |-> NoTables, before |-> before,
               notFound |-> notFound, sinkUp |-> sinkUp,
               prior |-> NoTime, result |-> NoResult]
      w1 == DecrementWindow(self.realtimeWindow)
      lastRun == w1 < 1
      cls == Classify(thisDatetime, self.lastRealDatetime,
                      self.nextRealDatetime)
      st0 == [lf |-> self.lf, coll |-> self.coll, fault |-> "",
              downloaded |-> NoTables, cleaned |-> NoTables,
              dropped |-> NoTables, stored |-> NoTables,
              reported |-> NoTables]
      st == TableLoop(tl, 1, st0, thisDatetime, notFound, sinkUp, lastRun,
                      self.realtimeStarted)
      pr == PriorDatetime(thisDatetime)
      polledBase == [base EXCEPT !.realtimeWindow = w1, !.lastRun = lastRun,
                                 !.polled = TRUE, !.prior = pr.last]
  IN
  IF tl # tableList
    THEN [base EXCEPT !.result = Return(FALSE, "tableList")]
  ELSE IF pr.exc # ""
    THEN [polledBase EXCEPT !.result = Raise(pr.exc)]
  ELSE IF cls \in {"tooEarly", "tooLate"}
    THEN TimingFailure(polledBase, st, cls)
  ELSE Outcome(Worked([polledBase EXCEPT !.classified = cls], st), st.fault,
               thisDatetime, lastRun, NextUpdate(thisDatetime))

Ingested(r) == r.result.kind = "return" /\ r.result.ok

\* the fields of the instance and the observation record after a call
ApplyCall(r, n) ==
  /\ realtimeStarted' = r.realtimeStarted
  /\ realtimeLooping' = r.realtimeLooping
  /\ realtimeWindow' = r.realtimeWindow
  /\ lastRealDatetime' = r.lastRealDatetime
  /\ nextRealDatetime' = r.nextRealDatetime
  /\ localFiles' = r.lf
  /\ realtimeColl' = r.coll
  /\ calls' = calls + 1
  /\ cycle' = [n |-> n, thisDatetime |-> r.thisDatetime,
               classified |-> r.classified, lastRun |-> r.lastRun,
               polled |-> r.polled, downloaded |-> r.downloaded,
               cleaned |-> r.cleaned, dropped |-> r.dropped,
               stored |-> r.stored, reported |-> r.reported,
               before |-> r.before,
               notFound |-> r.notFound, sinkUp |-> r.sinkUp,
               prior |-> r.prior, result |-> r.result]

\* how a run that has stopped ended, from its last cycle
EndOf(r) ==
  IF r.classified \in {"tooEarly", "tooLate"} THEN r.classified
  ELSE IF r.result.kind = "raise" THEN "raised"
  ELSE r.result.tag

\* the run bookkeeping after one more cycle r
AfterCycle(rn, r, running) ==
  [rn EXCEPT !.cycles = @ + 1,
             !.ingested = IF Ingested(r) THEN @ + 1 ELSE @,
             !.reports = IF \E t \in Tables : r.reported[t] THEN @ + 1
                         ELSE @,
             !.end = IF running THEN "" ELSE EndOf(r)]

NewRun(caller, n) ==
  [caller |-> caller, window |-> n, cycles |-> 0, ingested |-> 0,
   reports |-> 0, end |-> "", prevEnd |-> run.end]

NoCycle ==
  [n |-> 0, thisDatetime |-> NoTime, classified |-> "none",
   lastRun |-> FALSE, polled |-> FALSE, downloaded |-> NoTables,
   cleaned |-> NoTables, dropped |-> NoTables, stored |-> NoTables,
   reported |-> NoTables,
   before |-> [window |-> 0, started |-> FALSE, last |-> NoTime,
               next |-> NoTime],
   notFound |-> {}, sinkUp |-> TRUE, prior |-> NoTime,
   result |-> NoResult]

EmptyIndex == [raw |-> <<>>, clean |-> <<>>, realtimeR |-> <<>>,
               realtimeC |-> <<>>]

Modes == {"batch", "realtime"}
NoFilesOnDisk == [t \in Tables |-> [m \in Modes |-> {}]]
NoCleanCall ==
  [fileName |-> <<NoTime, "">>, table |-> "", mode |-> "",
   deleteRaw |-> FALSE, ret |-> "none", exc |-> "", wrote |-> FALSE,
   wasClean |-> FALSE, wasRaw |-> FALSE, afterSuccess |-> FALSE,
   content |-> [decodes |-> FALSE, rows |-> <<>>],
   lfBefore |-> [t \in Tables |-> EmptyIndex],
   rawBefore |-> NoFilesOnDisk, cleanBefore |-> NoFilesOnDisk]

\* no data file operation made
NoFileOp ==
  [op |-> "none", fileName |-> <<NoTime, "">>, mode |-> "", ret |-> "none",
   fetched |-> FALSE, deleteRaw |-> FALSE]

\* no wait made
NoWait ==
  [kind |-> "none", now |-> 0, next |-> 0, slept |-> 0, longest |-> 0,
   exc |-> ""]

\* no data file on disk and no cleanFile call made
NoCleaning ==
  /\ rawDisk = NoFilesOnDisk
  /\ cleanDisk = NoFilesOnDisk
  /\ cleanCall = NoCleanCall
  /\ cleanCalls = 0
  /\ fileOp = NoFileOp

\* GDELTeda.__init__ (default tableList) over empty data directories
SchedInit ==
  /\ tableList = DefaultTableList
  /\ realtimeStarted = FALSE
  /\ realtimeLooping = FALSE
  /\ realtimeWindow = 0
  /\ lastRealDatetime = NoTime
  /\ nextRealDatetime = NoTime
  /\ localFiles = [t \in Tables |-> EmptyIndex]
  /\ realtimeColl = [t \in Tables |-> <<>>]
  /\ pc = "idle"
  /\ loopReturn = "none"
  /\ cycle = NoCycle
  /\ run = [caller |-> "none", window |-> 0, cycles |-> 0, ingested |-> 0,
            reports |-> 0, end |-> "none", prevEnd |-> "none"]
  /\ calls = 0
  /\ wait = NoWait

\* (window, windowUnit) arguments tried: every window up to MaxWindow in
\* files, one hour, one day, and a unit loopEDA rejects
LoopArgs == {<<w, "file">> : w \in 0..MaxWindow}
              \cup {<<1, "hour">>, <<1, "day">>, <<1, "week">>}
TableLists == {DefaultTableList, OtherTableList}
\* collaborators answer: every URL resolves and MongoDB is reachable
NotFoundSets == {{}}
SinkStates == {TRUE}

\* window * 93, window * 4 or window, by windowUnit
WindowSize(window, windowUnit) ==
  IF windowUnit = "day" THEN window * FilesPerDay
  ELSE IF windowUnit = "hour" THEN window * FilesPerHour
  ELSE window

\* loopEDA(window, windowUnit, tl) from its call to its first sleep or
\* return: parameter checks, the 'oneRun' first iteration
LoopEDABegin(window, windowUnit, tl, thisDatetime, notFound, sinkUp) ==
  /\ pc = "idle"
  /\ UNCHANGED <<tableList, wait, codecVars, cleanVars>>
  /\ IF windowUnit \notin {"day", "hour", "file"} \/ window < 1
       THEN /\ loopReturn' = "False"
            /\ run' = [NewRun("loopEDA", 0) EXCEPT !.end = "rejected"]
            /\ UNCHANGED <<realtimeStarted, realtimeLooping, realtimeWindow,
                           lastRealDatetime, nextRealDatetime, localFiles,
                           realtimeColl, pc, cycle, calls>>
     ELSE IF tl # tableList
       THEN /\ realtimeWindow' = WindowSize(window, windowUnit)
            /\ loopReturn' = "False"
            /\ run' = [NewRun("loopEDA", 0) EXCEPT !.end = "rejected"]
            /\ UNCHANGED <<realtimeStarted, realtimeLooping,
                           lastRealDatetime, nextRealDatetime, localFiles,
                           realtimeColl, pc, cycle, calls>>
     ELSE
       /\ calls < MaxCalls
       /\ \E w \in {WindowSize(window, windowUnit)} :
          \E r \in {realtimeEDA([Self EXCEPT !.realtimeWindow = w,
                                              !.realtimeLooping =
                                                 IF w > 1 THEN TRUE ELSE @],
                                 tl, thisDatetime, notFound, sinkUp)} :
            LET oneRun == ~(w > 1)
                raised == r.result.kind = "raise"
                running == ~raised /\ ~oneRun
            IN
            /\ ApplyCall(r, 1)
            /\ run' = AfterCycle(NewRun("loopEDA", w), r, running)
            /\ pc' = IF running THEN "wait" ELSE "idle"
            /\ loopReturn' = IF raised THEN "raised"
                             ELSE IF oneRun THEN "True"
                             ELSE loopReturn

\* timedelta.seconds of a difference of d whole seconds
DaySeconds == 86400
Seconds(d) == d % DaySeconds

\* 'while(timeLeft > 60): sleep(60); timeLeft -= 60' runs Sleeps(timeLeft)
\* times, then 'sleep(timeLeft)' sleeps the rest; time.sleep raises
\* ValueError on a negative length
SleepStep == 60
Sleeps(timeLeft) ==
  IF timeLeft > SleepStep THEN (timeLeft - 1) \div SleepStep ELSE 0
SleepLoop(timeLeft, w) ==
  IF timeLeft < 0 THEN [w EXCEPT !.exc = "ValueError"]
  ELSE [w EXCEPT !.slept = Sleeps(timeLeft) * SleepStep
                            + (timeLeft - Sleeps(timeLeft) * SleepStep),
                 !.longest = IF Sleeps(timeLeft) > 0 THEN SleepStep
                             ELSE timeLeft]

\* the wait for nextRealDatetime (next, in seconds) at clock reading now,
\* timeTaken seconds after the first iteration began
FallbackWait == 900
WaitFor(next, now, timeTaken) ==
  IF Seconds(next - now) > 0
    THEN SleepLoop(Seconds(next - now),
                   [NoWait EXCEPT !.kind = "wait", !.now = now,
                                  !.next = next])
    ELSE SleepLoop(FallbackWait - timeTaken,
                   [NoWait EXCEPT !.kind = "wait", !.now = now,
                                  !.next = next])

\* 'sleep(30)' after a 'tooEarly' iteration
BackoffSeconds == 30
Backoff(now) ==
  [NoWait EXCEPT !.kind = "backoff", !.now = now, !.slept = BackoffSeconds,
                 !.longest = BackoffSeconds]

\* the wait before the next iteration, or the 30 second back-off, at clock
\* reading now (seconds)
LoopEDASleep(now, timeTaken) ==
  /\ pc \in {"wait", "backoff"}
  /\ \E w \in {IF pc = "backoff" THEN Backoff(now)
                ELSE WaitFor(nextRealDatetime * 60, now, timeTaken)} :
       /\ wait' = w
       /\ IF w.exc # ""
            THEN /\ pc' = "idle"
                 /\ loopReturn' = "raised"
                 /\ run' = [run EXCEPT !.end = "raised"]
            ELSE /\ pc' = "loop"
                 /\ UNCHANGED <<loopReturn, run>>
  /\ UNCHANGED <<tableList, realtimeStarted, realtimeLooping, realtimeWindow,
                 lastRealDatetime, nextRealDatetime, localFiles, realtimeColl,
                 cycle, calls, codecVars, cleanVars>>

\* one pass of 'while self.realtimeLooping': the realtimeEDA call and the
\* state handling for its result, up to the next sleep or the return
LoopEDAIterate(thisDatetime, notFound, sinkUp) ==
  /\ pc = "loop"
  /\ UNCHANGED <<tableList, wait, codecVars, cleanVars>>
  /\ IF ~realtimeLooping
       THEN /\ pc' = "idle"
            /\ loopReturn' = "None"
            /\ run' = [run EXCEPT !.end = "loopExit"]
            /\ UNCHANGED <<realtimeStarted, realtimeLooping, realtimeWindow,
                           lastRealDatetime, nextRealDatetime, localFiles,
                           realtimeColl, cycle, calls>>
     ELSE
       /\ calls < MaxCalls
       /\ \E r \in {realtimeEDA(Self, tableList, thisDatetime, notFound,
                                 sinkUp)} :
           LET res == r.result
               raised == res.kind = "raise"
               backoff == ~raised /\ ~res.ok /\ res.tag = "tooEarly"
               waits == ~raised /\ res.ok /\ res.tag # "finished"
               running == backoff \/ waits
           IN
           /\ ApplyCall(r, run.cycles + 1)
           /\ run' = AfterCycle(run, r, running)
           /\ pc' = IF backoff THEN "backoff"
                    ELSE IF waits THEN "wait"
                    ELSE "idle"
           /\ loopReturn' = IF raised THEN "raised"
                            ELSE IF running THEN loopReturn
                            ELSE IF res.ok THEN "None"
                            ELSE "False"

\* realtimeEDA(tl) called by itself, outside loopEDA
CallRealtimeEDA(tl, thisDatetime, notFound, sinkUp) ==
  /\ pc = "idle"
  /\ calls < MaxCalls
  /\ \E r \in {realtimeEDA(Self, tl, thisDatetime, notFound, sinkUp)} :
       /\ ApplyCall(r, 1)
       /\ run' = AfterCycle(NewRun("realtimeEDA", realtimeWindow), r, FALSE)
  /\ UNCHANGED <<tableList, pc, loopReturn, wait, codecVars, cleanVars>>

SchedNext ==
  \/ \E arg \in LoopArgs, tl \in TableLists,
        thisDatetime \in ManifestTimes,
        notFound \in NotFoundSets, sinkUp \in SinkStates :
       LoopEDABegin(arg[1], arg[2], tl, thisDatetime, notFound, sinkUp)
  \* the clock stands 15 minutes before nextRealDatetime when a wait
  \* begins, and the first iteration took 30 seconds
  \/ \E d \in {900}, timeTaken \in {30} :
       LoopEDASleep(nextRealDatetime * 60 - d, timeTaken)
  \/ \E thisDatetime \in ManifestTimes, notFound \in NotFoundSets,
        sinkUp \in SinkStates :
       LoopEDAIterate(thisDatetime, notFound, sinkUp)
  \/ \E tl \in TableLists, thisDatetime \in ManifestTimes,
        notFound \in NotFoundSets, sinkUp \in SinkStates :
       CallRealtimeEDA(tl, thisDatetime, notFound, sinkUp)

\* ------------------------------------------- GKG compound-field converters
\* A raw string is a sequence of characters; a letter, a digit and the two
\* delimiters are enough to tell every case of the converters apart.
Alphabet == {"a", "1", ";", "#"}
Digits == {"1"}
Null == <<"NaN">>                       \* pd.isnull(x) holds of this input
Blank == <<" ">>                        \* the string ' '

RECURSIVE StringsOfLen(_)
StringsOfLen(n) ==
  IF n = 0 THEN {<<>>}
  ELSE {Append(s, c) : s \in StringsOfLen(n - 1), c \in Alphabet}

RawStrings == UNION {StringsOfLen(n) : n \in 0..MaxLen}

\* str.split(sep): the pieces between the separators, never an empty list
RECURSIVE SplitFrom(_, _, _, _)
SplitFrom(s, sep, i, piece) ==
  IF i > Len(s) THEN <<piece>>
  ELSE IF s[i] = sep
    THEN <<piece>> \o SplitFrom(s, sep, i + 1, <<>>)
    ELSE SplitFrom(s, sep, i + 1, Append(piece, s[i]))

Split(s, sep) == SplitFrom(s, sep, 1, <<>>)

\* list.remove(e): the list without its first element equal to e
RECURSIVE RemoveFrom(_, _, _)
RemoveFrom(l, e, i) ==
  IF i > Len(l) THEN l
  ELSE IF l[i] = e
    THEN SubSeq(l, 1, i - 1) \o SubSeq(l, i + 1, Len(l))
    ELSE RemoveFrom(l, e, i + 1)

Remove(l, e) == RemoveFrom(l, e, 1)

\* int(token) / float(token): defined on digit strings, ValueError otherwise
IsNumeric(token) ==
  Len(token) > 0 /\ \A i \in 1..Len(token) : token[i] \in Digits

RECURSIVE NumberOf(_)
NumberOf(token) ==
  IF Len(token) = 0 THEN 0
  ELSE 10 * NumberOf(SubSeq(token, 1, Len(token) - 1)) + 1

Absent == [tag |-> "None", s |-> <<>>, n |-> 0]
StrValue(token) == [tag |-> "str", s |-> token, n |-> 0]
NumValue(kind, token) == [tag |-> kind, s |-> <<>>, n |-> NumberOf(token)]

ListResult(items) == [kind |-> "list", items |-> items, exc |-> ""]
NoneResult == [kind |-> "None", items |-> <<>>, exc |-> ""]
RaiseResult(exc) == [kind |-> "raise", items |-> <<>>, exc |-> exc]
NoOutput == [kind |-> "none", items |-> <<>>, exc |-> ""]

LocationAttrs == <<"Type", "FullName", "CountryCode", "ADM1Code", "Latitude",
                   "Longitude", "FeatureID">>
LocationKinds == <<"int", "str", "str", "str", "float", "float", "str">>
CountAttrs == <<"CountType", "Count", "ObjectType", "LocationType",
                "LocationFullName", "LocationCountryCode",
                "LocationADM1Code", "LocationLatitude", "LocationLongitude",
                "LocationFeatureID">>
CountKinds == <<"str", "int", "str", "int", "str", "str", "str", "float",
                "float", "str">>

IndexOf(seq, e) == CHOOSE k \in 1..Len(seq) : seq[k] = e

\* the tokens of one item as the converters hold them: split on '#', then
\* 'if tokens[-1] == "": tokens.remove("")'
ItemTokens(substring) ==
  LET tokens == Split(substring, "#") IN
  IF tokens[Len(tokens)] = <<>> THEN Remove(tokens, <<>>) ELSE tokens

\* the dict built from one item: attribute k is filled from tokens[k] when
\* 'subLength > k' and the token is not ''; fails when int()/float() fails
ItemFails(substring, kinds) ==
  LET tokens == ItemTokens(substring) IN
  \E k \in 1..Len(kinds) :
     /\ k <= Len(tokens)
     /\ tokens[k] # <<>>
     /\ kinds[k] \in {"int", "float"}
     /\ ~IsNumeric(tokens[k])

ItemDict(substring, attrs, kinds) ==
  LET tokens == ItemTokens(substring) IN
  [a \in SeqRange(attrs) |->
     LET k == IndexOf(attrs, a) IN
     IF k <= Len(tokens) /\ tokens[k] # <<>>
       THEN IF kinds[k] = "str" THEN StrValue(tokens[k])
            ELSE NumValue(kinds[k], tokens[k])
       ELSE Absent]

\* the list of dicts for the items substrings, or the ValueError of the
\* first item whose numeric token does not convert
ItemDicts(substrings, attrs, kinds) ==
  IF \E i \in 1..Len(substrings) : ItemFails(substrings[i], kinds)
    THEN RaiseResult("ValueError")
    ELSE ListResult([i \in 1..Len(substrings) |->
                       ItemDict(substrings[i], attrs, kinds)])

themeSplitter(v) ==
  IF v # Null
    THEN LET l == Split(v, ";") IN
         ListResult(IF l[Len(l)] = <<>> THEN Remove(l, <<>>) ELSE l)
    ELSE ListResult(<<Blank>>)

locationsSplitter(v) ==
  IF v # Null
    THEN ItemDicts(Split(v, ";"), LocationAttrs, LocationKinds)
    ELSE NoneResult

personsSplitter(v) ==
  IF v # Null
    THEN LET l == Split(v, ";") IN
         ListResult(IF Len(l) > 1 /\ l[Len(l)] = <<>> THEN Remove(l, <<>>)
                    ELSE l)
    ELSE ListResult(<<Blank>>)

organizationsSplitter(v) ==
  IF v # Null
    THEN ListResult(Split(v, ";"))
    ELSE ListResult(<<Blank>>)

countSplitter(v) ==
  IF v # Null
    THEN LET l == Split(v, ";") IN
         IF Len(l) = 0 THEN NoneResult
         ELSE ItemDicts(l, CountAttrs, CountKinds)
    ELSE NoneResult

\* V15Tone: seven comma-separated positions, all float but the last
ToneAttrs == <<"Tone", "Positive", "Negative", "Polarity", "ARD", "SGRD",
               "WordCount">>
ToneKinds == <<"float", "float", "float", "float", "float", "float", "int">>
TonePositions == 7

DictResult(d) == [kind |-> "dict", items |-> <<d>>, exc |-> ""]
FloatResult(n) == [kind |-> "float", items |-> <<n>>, exc |-> ""]

\* the tone dict with position k filled whenever the string has a non-empty
\* token there, however many positions the string has
toneSplitterPartial(v) ==
  IF v # Null
    THEN LET tokens == Split(v, ",") IN
         IF \E k \in 1..TonePositions :
               k <= Len(tokens) /\ tokens[k] # <<>> /\ ~IsNumeric(tokens[k])
           THEN RaiseResult("ValueError")
           ELSE DictResult([a \in SeqRange(ToneAttrs) |->
                  LET k == IndexOf(ToneAttrs, a) IN
                  IF k <= Len(tokens) /\ tokens[k] # <<>>
                    THEN NumValue(ToneKinds[k], tokens[k])
                    ELSE Absent])
    ELSE NoneResult

\* toneSplitter: the dict is filled only 'if len(x) > 6'; the return
\* statement is inside 'if not pd.isnull(x)', so a null input gives None
toneSplitter(v) ==
  IF v # Null
    THEN LET tokens == Split(v, ",") IN
         IF Len(tokens) > TonePositions - 1
           THEN IF \E k \in 1..TonePositions :
                     tokens[k] # <<>> /\ ~IsNumeric(tokens[k])
                  THEN RaiseResult("ValueError")
                  ELSE DictResult([a \in SeqRange(ToneAttrs) |->
                         LET k == IndexOf(ToneAttrs, a) IN
                         IF tokens[k] # <<>>
                           THEN NumValue(ToneKinds[k], tokens[k])
                           ELSE Absent])
           ELSE DictResult([a \in SeqRange(ToneAttrs) |-> Absent])
    ELSE NoneResult

\* str.replace(old, ''): the string without any occurrence of the character
RECURSIVE Strip(_, _)
Strip(s, c) ==
  IF Len(s) = 0 THEN <<>>
  ELSE IF s[1] = c THEN Strip(Tail(s), c)
  ELSE <<s[1]>> \o Strip(Tail(s), c)

\* llConverter: float() of the token without its '#' characters
llConverter(v) ==
  IF v # Null
    THEN LET stripped == IF \E i \in 1..Len(v) : v[i] = "#"
                           THEN Strip(v, "#") ELSE v
         IN IF IsNumeric(stripped)
              THEN FloatResult(NumValue("float", stripped))
              ELSE RaiseResult("ValueError")
    ELSE NoneResult

\* ------------------------------------------------------ cleanFile, in full
\* Raw rows are given by the tokens of the columns cleanFile converts.
StampDigits == 14
GoodStamp == [i \in 1..StampDigits |-> "1"]   \* '11111111111111'
Text == <<"a">>
Number == <<"1">>
Marker == <<"#">>
GoodTone == <<"1", ",", "1", ",", "1", ",", "1", ",", "1", ",", "1", ",",
              "1">>

\* toolData['names']['gkg']['reduced'], and of the other two tables the
\* identifier and the columns the post-read conversions touch
GkgStringColumns == {"GKGRECORDID", "V21DATE", "V2SourceCommonName",
                     "V2DocumentIdentifier"}
GkgConverterColumns == {"V1Counts", "V1Themes", "V1Locations", "V1Persons",
                        "V1Organizations", "V15Tone"}
GeoColumns == {"Actor1Geo_Lat", "Actor1Geo_Long", "Actor2Geo_Lat",
               "Actor2Geo_Long", "ActionGeo_Lat", "ActionGeo_Long"}

GkgValidRow ==
  [GKGRECORDID |-> Text, V21DATE |-> GoodStamp,
   V2SourceCommonName |-> Text, V2DocumentIdentifier |-> Text,
   V1Counts |-> <<"a", "#", "1">>, V1Themes |-> <<"a", ";">>,
   V1Locations |-> <<"1", "#", "a">>, V1Persons |-> Text,
   V1Organizations |-> Text, V15Tone |-> GoodTone]
\* the fragment a stray newline leaves: its first token and nothing else
GkgJunkRow ==
  [GKGRECORDID |-> Text, V21DATE |-> <<>>,
   V2SourceCommonName |-> <<>>, V2DocumentIdentifier |-> <<>>,
   V1Counts |-> <<>>, V1Themes |-> <<>>, V1Locations |-> <<>>,
   V1Persons |-> <<>>, V1Organizations |-> <<>>, V15Tone |-> <<>>]
GkgRows == {GkgValidRow, [GkgValidRow EXCEPT !.V21DATE = Text],
            [GkgValidRow EXCEPT !.V1Locations = Text], GkgJunkRow}

EventsValidRow ==
  [GLOBALEVENTID |-> Number, Actor1Geo_Lat |-> Number,
   Actor1Geo_Long |-> Number, Actor2Geo_Lat |-> <<>>,
   Actor2Geo_Long |-> <<>>, ActionGeo_Lat |-> <<"1", "#", "1">>,
   ActionGeo_Long |-> <<"1", "1">>, DATEADDED |-> GoodStamp]
EventsRows == {EventsValidRow, [EventsValidRow EXCEPT !.DATEADDED = Text],
               [EventsValidRow EXCEPT !.ActionGeo_Lat = Marker]}

MentionsValidRow ==
  [GLOBALEVENTID |-> Number, EventTimeDate |-> GoodStamp,
   MentionTimeDate |-> GoodStamp]
MentionsRows == {MentionsValidRow,
                 [MentionsValidRow EXCEPT !.MentionTimeDate = Text]}

RowsOf(table) ==
  CASE table = "gkg" -> GkgRows
    [] table = "events" -> EventsRows
    [] table = "mentions" -> MentionsRows

RECURSIVE RowSeqs(_, _)
RowSeqs(table, n) ==
  IF n = 0 THEN {<<>>}
  ELSE {Append(rs, r) : rs \in RowSeqs(table, n - 1), r \in RowsOf(table)}

\* a raw file: whether pandas can tokenize it at all, and its rows
FileContents(table) ==
  {[decodes |-> FALSE, rows |-> <<>>]}
    \cup {[decodes |-> TRUE, rows |-> rs] :
            rs \in UNION {RowSeqs(table, n) : n \in 1..MaxRows}}

\* a cell of a string-typed column: an empty field is read as NA
NA == [tag |-> "NA", s |-> <<>>, n |-> 0]
Cell(token) == IF token = <<>> THEN NA ELSE StrValue(token)
\* what .apply hands to a conversion function for a cell
CellInput(cell) == IF cell.tag = "NA" THEN Null ELSE cell.s

\* dtConverter: strptime(str(x), "%Y%m%d%H%M%S"); of the tokens given here
\* only fourteen digits parse, str() of NA does not
dtConverter(v) ==
  IF v # Null /\ Len(v) = StampDigits /\ IsNumeric(v)
    THEN [kind |-> "datetime", items |-> <<v>>, exc |-> ""]
    ELSE RaiseResult("ValueError")

\* gkgConverters: the conversion function read_csv applies to a column;
\* it is handed the field's text, '' for an empty or missing field
GkgConvert(col, token) ==
  CASE col = "V1Themes" -> themeSplitter(token)
    [] col = "V1Locations" -> locationsSplitter(token)
    [] col = "V1Persons" -> personsSplitter(token)
    [] col = "V1Organizations" -> organizationsSplitter(token)
    [] col = "V15Tone" -> toneSplitter(token)
    [] col = "V1Counts" -> countSplitter(token)

\* one row as read_csv holds it
ReadRow(table, row) ==
  [c \in DOMAIN row |->
     IF table = "gkg" /\ c \in GkgConverterColumns
       THEN GkgConvert(c, row[c])
       ELSE Cell(row[c])]

\* pd.read_csv: the exception it raises, or the DataFrame
readCsv(table, content) ==
  IF ~content.decodes
    THEN [exc |-> "ParserError", df |-> <<>>]
  ELSE IF table = "gkg"
          /\ \E i \in 1..Len(content.rows) : \E c \in GkgConverterColumns :
                GkgConvert(c, content.rows[i][c]).kind = "raise"
    THEN [exc |-> "ValueError", df |-> <<>>]
  ELSE [exc |-> "",
        df |-> [i \in 1..Len(content.rows) |->
                  ReadRow(table, content.rows[i])]]

\* DataFrame.dropna(axis = 0, thresh = 5): a row stays when at least 5 of
\* its cells are not NA; a converter's list or dict is not NA
DropThreshold == 5
NonNA(dfRow) ==
  Cardinality({c \in GkgStringColumns : dfRow[c].tag # "NA"})
    + Cardinality({c \in GkgConverterColumns : dfRow[c].kind # "None"})
KeepsRow(dfRow) == NonNA(dfRow) >= DropThreshold
dropna(df) == SelectSeq(df, KeepsRow)

\* the per-table conversions of a row after read_csv
EventsConvert(dfRow) ==
  [dfRow EXCEPT
     !.Actor1Geo_Lat = llConverter(CellInput(dfRow.ActionGeo_Lat)),
     !.Actor1Geo_Long = llConverter(CellInput(dfRow.ActionGeo_Long)),
     !.Actor2Geo_Lat = llConverter(CellInput(dfRow.ActionGeo_Lat)),
     !.Actor2Geo_Long = llConverter(CellInput(dfRow.ActionGeo_Long)),
     !.ActionGeo_Lat = llConverter(CellInput(dfRow.ActionGeo_Lat)),
     !.ActionGeo_Long = llConverter(CellInput(dfRow.ActionGeo_Long)),
     !.DATEADDED = dtConverter(CellInput(dfRow.DATEADDED))]
GkgConvertDate(dfRow) ==
  [dfRow EXCEPT !.V21DATE = dtConverter(CellInput(dfRow.V21DATE))]
MentionsConvert(dfRow) ==
  [dfRow EXCEPT
     !.EventTimeDate = dtConverter(CellInput(dfRow.EventTimeDate)),
     !.MentionTimeDate = dtConverter(CellInput(dfRow.MentionTimeDate))]

ConvertedColumns(table) ==
  CASE table = "events" -> GeoColumns \cup {"DATEADDED"}
    [] table = "gkg" -> {"V21DATE"}
    [] table = "mentions" -> {"EventTimeDate", "MentionTimeDate"}

ConvertRow(table, dfRow) ==
  CASE table = "events" -> EventsConvert(dfRow)
    [] table = "gkg" -> GkgConvertDate(dfRow)
    [] table = "mentions" -> MentionsConvert(dfRow)

\* the rows converted, and whether a conversion raised ValueError
ConvertRows(table, df) ==
  [df |-> [i \in 1..Len(df) |-> ConvertRow(table, df[i])],
   raised |-> \E i \in 1..Len(df) : \E c \in ConvertedColumns(table) :
                ConvertRow(table, df[i])[c].kind = "raise"]

\* the post-read conversions of a table: the DataFrame to write, the
\* exception that escapes, or the ValueError the gkg branch catches
Convert(table, df) ==
  [conv |-> ConvertRows(table, IF table = "gkg" THEN dropna(df) ELSE df),
   catches |-> table = "gkg"]

\* extensionToTableName: the table of a file name, by its extension
extensionToTableName(fileName) ==
  CASE fileName[2] = "export.CSV" -> "events"
    [] fileName[2] = "gkg.csv" -> "gkg"
    [] fileName[2] = "mentions.CSV" -> "mentions"

\* the localFiles lists a mode reads and writes
RawState(mode) == IF mode = "batch" THEN "raw" ELSE "realtimeR"
CleanState(mode) == IF mode = "batch" THEN "clean" ELSE "realtimeC"

\* os.path.isfile, the content of a file, DataFrame.to_json and os.remove
OnDisk(d, table, mode, name) == \E f \in d[table][mode] : f.name = name
DataOf(d, table, mode, name) ==
  (CHOOSE f \in d[table][mode] : f.name = name).data
WriteFile(d, table, mode, name, data) ==
  [d EXCEPT ![table][mode] =
     {f \in @ : f.name # name} \cup {[name |-> name, data |-> data]}]
RemoveFile(d, table, mode, name) ==
  [d EXCEPT ![table][mode] = {f \in @ : f.name # name}]

\* the instance and the disk after a cleanFile call, with what it returned
\* ("True", "False") or that it raised, and whether it wrote an output
CleanDone(lf, raw, clean, ret, exc, wrote) ==
  [lf |-> lf, raw |-> raw, clean |-> clean, ret |-> ret, exc |-> exc,
   wrote |-> wrote]

\* from to_json on: the output is written, the raw file optionally
\* deleted (OSError caught, list.remove not), the clean name indexed
CleanWrite(lf, raw, clean, fileName, table, deleteRaw, mode, removeFails) ==
  IF ~deleteRaw
    THEN CleanDone([lf EXCEPT ![table][CleanState(mode)] =
                      Append(@, CleanFileName(fileName, table))],
                   raw, clean, "True", "", TRUE)
  ELSE IF removeFails
    THEN CleanDone(lf, raw, clean, "False", "", TRUE)
  ELSE IF fileName \notin SeqRange(lf[table][RawState(mode)])
    THEN CleanDone(lf, RemoveFile(raw, table, mode, fileName), clean,
                   "raise", "ValueError", TRUE)
  ELSE CleanDone([lf EXCEPT ![table][RawState(mode)] = Remove(@, fileName),
                            ![table][CleanState(mode)] =
                               Append(@, CleanFileName(fileName, table))],
                 RemoveFile(raw, table, mode, fileName), clean,
                 "True", "", TRUE)

\* the post-read conversions cv: only the gkg branch catches ValueError
CleanConvert(lf, raw, clean, fileName, table, deleteRaw, mode, removeFails, cv) ==
  IF cv.conv.raised
    THEN IF cv.catches
           THEN CleanDone(lf, raw, clean, "False", "", FALSE)
           ELSE CleanDone(lf, raw, clean, "raise", "ValueError", FALSE)
    ELSE CleanWrite(lf, raw,
                    WriteFile(clean, table, mode,
                              CleanFileName(fileName, table), cv.conv.df),
                    fileName, table, deleteRaw, mode, removeFails)

\* pd.read_csv answered rd: its exception is not caught
CleanRead(lf, raw, clean, fileName, table, deleteRaw, mode, removeFails, rd) ==
  IF rd.exc # ""
    THEN CleanDone(lf, raw, clean, "raise", rd.exc, FALSE)
    ELSE CleanConvert(lf, raw, clean, fileName, table, deleteRaw, mode,
                      removeFails, Convert(table, rd.df))

\* cleanFile without its os.path.isfile test: read_csv meets the missing file
CleanFindUnchecked(lf, raw, clean, fileName, table, deleteRaw, mode, removeFails) ==
  IF ~OnDisk(raw, table, mode, fileName)
    THEN CleanDone(lf, raw, clean, "raise", "FileNotFoundError", FALSE)
    ELSE CleanRead(lf, raw, clean, fileName, table, deleteRaw, mode,
                   removeFails,
                   readCsv(table, DataOf(raw, table, mode, fileName)))

\* 'if not os.path.isfile(rawFilePath): return False'
CleanFind(lf, raw, clean, fileName, table, deleteRaw, mode, removeFails) ==
  IF ~OnDisk(raw, table, mode, fileName)
    THEN CleanDone(lf, raw, clean, "False", "", FALSE)
    ELSE CleanRead(lf, raw, clean, fileName, table, deleteRaw, mode,
                   removeFails,
                   readCsv(table, DataOf(raw, table, mode, fileName)))

\* cleanFile without its test of the clean index: every call cleans again
CleanSkipUnchecked(lf, raw, clean, fileName, table, deleteRaw, mode, removeFails) ==
  CleanFind(lf, raw, clean, fileName, table, deleteRaw, mode, removeFails)

\* 'if (cleanFileName in self.localFiles[table][<clean list>]): return False'
CleanSkip(lf, raw, clean, fileName, table, deleteRaw, mode, removeFails) ==
  IF CleanFileName(fileName, table) \in SeqRange(lf[table][CleanState(mode)])
    THEN CleanDone(lf, raw, clean, "False", "", FALSE)
    ELSE CleanFind(lf, raw, clean, fileName, table, deleteRaw, mode,
                   removeFails)

\* cleanFile(fileName, deleteRaw, mode = mode) on index lf and the disk;
\* removeFails = os.remove raises OSError
cleanFileCall(lf, raw, clean, fileName, deleteRaw, mode, removeFails) ==
  CleanSkip(lf, raw, clean, fileName, extensionToTableName(fileName),
            deleteRaw, mode, removeFails)

\* read_csv applying one converter of gkgConverters to one raw field
ApplyThemeSplitter ==
  /\ fn = "none"
  /\ fn' = "themeSplitter"
  /\ y' = themeSplitter(x)
  /\ UNCHANGED <<x, schedVars, cleanVars>>

ApplyLocationsSplitter ==
  /\ fn = "none"
  /\ fn' = "locationsSplitter"
  /\ y' = locationsSplitter(x)
  /\ UNCHANGED <<x, schedVars, cleanVars>>

ApplyPersonsSplitter ==
  /\ fn = "none"
  /\ fn' = "personsSplitter"
  /\ y' = personsSplitter(x)
  /\ UNCHANGED <<x, schedVars, cleanVars>>

ApplyOrganizationsSplitter ==
  /\ fn = "none"
  /\ fn' = "organizationsSplitter"
  /\ y' = organizationsSplitter(x)
  /\ UNCHANGED <<x, schedVars, cleanVars>>

ApplyCountSplitter ==
  /\ fn = "none"
  /\ fn' = "countSplitter"
  /\ y' = countSplitter(x)
  /\ UNCHANGED <<x, schedVars, cleanVars>>

CodecInit ==
  /\ SchedInit
  /\ NoCleaning
  /\ x \in RawStrings \cup {Null}
  /\ fn = "none"
  /\ y = NoOutput

CodecNext ==
  \/ ApplyThemeSplitter
  \/ ApplyLocationsSplitter
  \/ ApplyPersonsSplitter
  \/ ApplyOrganizationsSplitter
  \/ ApplyCountSplitter

SpecCodec == CodecInit /\ [][CodecNext]_vars

\* the tone converter of gkgConverters and the Events coordinate converter
ApplyToneSplitter ==
  /\ fn = "none"
  /\ fn' = "toneSplitter"
  /\ y' = toneSplitter(x)
  /\ UNCHANGED <<x, schedVars, cleanVars>>

ApplyLlConverter ==
  /\ fn = "none"
  /\ fn' = "llConverter"
  /\ y' = llConverter(x)
  /\ UNCHANGED <<x, schedVars, cleanVars>>

ToneAlphabet == {"a", "1", ","}
RECURSIVE ToneStringsOfLen(_)
ToneStringsOfLen(n) ==
  IF n = 0 THEN {<<>>}
  ELSE {Append(s, c) : s \in ToneStringsOfLen(n - 1), c \in ToneAlphabet}

ToneStrings == UNION {ToneStringsOfLen(n) : n \in 0..MaxToneLen}

FieldsInit ==
  /\ SchedInit
  /\ NoCleaning
  /\ x \in RawStrings \cup ToneStrings \cup {Null}
  /\ fn = "none"
  /\ y = NoOutput

FieldsNext ==
  \/ CodecNext
  \/ ApplyToneSplitter
  \/ ApplyLlConverter

SpecFields == FieldsInit /\ [][FieldsNext]_vars

\* ---------------------------------------------- cleanFile on data on disk
TestStamp == 600
FileNames == {RawFileName(TestStamp, t) : t \in Tables}

\* os.listdir: the names in a directory, in some order
RECURSIVE SeqOfSet(_)
SeqOfSet(S) ==
  IF S = {} THEN <<>>
  ELSE <<CHOOSE e \in S : TRUE>> \o SeqOfSet(S \ {CHOOSE e \in S : TRUE})
Listing(d, table, mode) == SeqOfSet({f.name : f \in d[table][mode]})

\* updateLocalFilesIndex: every list is the listing of its directory
updateLocalFilesIndex(raw, clean) ==
  [t \in Tables |->
     [raw |-> Listing(raw, t, "batch"), clean |-> Listing(clean, t, "batch"),
      realtimeR |-> Listing(raw, t, "realtime"),
      realtimeC |-> Listing(clean, t, "realtime")]]

ValidRow(table) ==
  CASE table = "gkg" -> GkgValidRow
    [] table = "events" -> EventsValidRow
    [] table = "mentions" -> MentionsValidRow

\* the clean output an earlier cleanFile call left of a one-row raw file
OldOutput(table) ==
  ConvertRows(table, <<ReadRow(table, ValidRow(table))>>).df

\* GDELTbase.__init__ over data directories that hold, for one table and
\* one mode, at most one raw file and at most one clean file
CleanInit ==
  /\ tableList = DefaultTableList
  /\ realtimeStarted = FALSE
  /\ realtimeLooping = FALSE
  /\ realtimeWindow = 0
  /\ lastRealDatetime = NoTime
  /\ nextRealDatetime = NoTime
  /\ realtimeColl = [t \in Tables |-> <<>>]
  /\ pc = "idle"
  /\ loopReturn = "none"
  /\ cycle = NoCycle
  /\ run = [caller |-> "none", window |-> 0, cycles |-> 0, ingested |-> 0,
            reports |-> 0, end |-> "none", prevEnd |-> "none"]
  /\ calls = 0
  /\ wait = NoWait
  /\ x = <<>> /\ fn = "none" /\ y = NoOutput
  /\ \E t \in Tables, m \in Modes :
       /\ rawDisk \in
            {NoFilesOnDisk}
              \cup {[NoFilesOnDisk EXCEPT ![t][m] =
                       {[name |-> RawFileName(TestStamp, t), data |-> d]}] :
                     d \in FileContents(t)}
       /\ cleanDisk \in
            {NoFilesOnDisk,
             [NoFilesOnDisk EXCEPT ![t][m] =
                {[name |-> CleanFileName(RawFileName(TestStamp, t), t),
                  data |-> OldOutput(t)]}]}
  /\ localFiles = updateLocalFilesIndex(rawDisk, cleanDisk)
  /\ cleanCall = NoCleanCall
  /\ cleanCalls = 0
  /\ fileOp = NoFileOp

\* one cleanFile call, and what it found and left
CleanFile(fileName, deleteRaw, mode, removeFails) ==
  /\ cleanCalls < MaxCleanCalls
  /\ removeFails => deleteRaw
  /\ \E t \in {extensionToTableName(fileName)} :
     \E r \in {cleanFileCall(localFiles, rawDisk, cleanDisk, fileName,
                             deleteRaw, mode, removeFails)} :
       /\ localFiles' = r.lf
       /\ rawDisk' = r.raw
       /\ cleanDisk' = r.clean
       /\ cleanCall' =
            [fileName |-> fileName, table |-> t, mode |-> mode,
             deleteRaw |-> deleteRaw, ret |-> r.ret, exc |-> r.exc,
             wrote |-> r.wrote,
             wasClean |-> CleanFileName(fileName, t)
                            \in SeqRange(localFiles[t][CleanState(mode)]),
             wasRaw |-> OnDisk(rawDisk, t, mode, fileName),
             afterSuccess |-> /\ cleanCall.ret = "True"
                              /\ cleanCall.fileName = fileName
                              /\ cleanCall.mode = mode,
             content |-> IF OnDisk(rawDisk, t, mode, fileName)
                           THEN DataOf(rawDisk, t, mode, fileName)
                           ELSE [decodes |-> FALSE, rows |-> <<>>],
             lfBefore |-> localFiles, rawBefore |-> rawDisk,
             cleanBefore |-> cleanDisk]
  /\ cleanCalls' = cleanCalls + 1
  /\ UNCHANGED <<tableList, realtimeStarted, realtimeLooping, realtimeWindow,
                 lastRealDatetime, nextRealDatetime, realtimeColl, pc,
                 loopReturn, cycle, run, calls, wait, fileOp, codecVars>>

CleanNext ==
  \E fileName \in FileNames, deleteRaw \in BOOLEAN, mode \in Modes,
     removeFails \in BOOLEAN :
    CleanFile(fileName, deleteRaw, mode, removeFails)

SpecClean == CleanInit /\ [][CleanNext]_vars

Init == SchedInit /\ NoCleaning /\ x = <<>> /\ fn = "none" /\ y = NoOutput
Next == SchedNext
Spec == Init /\ [][Next]_vars

\* ------------------------------------- the scheduler with failing services
\* windows of 1 to MaxWindow files, manifest timestamps 22:30 and 22:45, one
\* URL at most not found, MongoDB reachable or not
FaultTimes == {1350, 1365}
FaultNotFoundSets == {{}} \cup {{t} : t \in Tables}

FaultNext ==
  \/ \E window \in 1..MaxWindow, thisDatetime \in FaultTimes,
        notFound \in FaultNotFoundSets, sinkUp \in BOOLEAN :
       LoopEDABegin(window, "file", DefaultTableList, thisDatetime, notFound,
                    sinkUp)
  \* the clock stands 15 minutes before nextRealDatetime when a wait
  \* begins, and the first iteration took 30 seconds
  \/ \E d \in {900}, timeTaken \in {30} :
       LoopEDASleep(nextRealDatetime * 60 - d, timeTaken)
  \/ \E thisDatetime \in FaultTimes, notFound \in FaultNotFoundSets,
        sinkUp \in BOOLEAN :
       LoopEDAIterate(thisDatetime, notFound, sinkUp)
  \/ \E thisDatetime \in FaultTimes, notFound \in FaultNotFoundSets,
        sinkUp \in BOOLEAN :
       CallRealtimeEDA(DefaultTableList, thisDatetime, notFound, sinkUp)

SpecFaults == Init /\ [][FaultNext]_vars

\* ------------------------------------------- the scheduler and the clock
\* seconds from the clock reading to nextRealDatetime when a wait begins
\* (negative: nextRealDatetime has passed), and seconds the first iteration
\* took
WaitDeltas == {-61, -1, 0, 1, 60, 61, 900, 3600}
TimesTaken == {30, 960}

WaitNext ==
  \/ \E window \in 1..MaxWindow, thisDatetime \in FaultTimes :
       LoopEDABegin(window, "file", DefaultTableList, thisDatetime, {}, TRUE)
  \/ \E d \in WaitDeltas, timeTaken \in TimesTaken :
       LoopEDASleep(nextRealDatetime * 60 - d, timeTaken)
  \/ \E thisDatetime \in FaultTimes :
       LoopEDAIterate(thisDatetime, {}, TRUE)

SpecWait == Init /\ [][WaitNext]_vars

\* ------------------------------------------- the data files and their index
\* downloadGDELTFile, cleanFile, cleanTable, wipeLocalFiles and
\* updateLocalFilesIndex called in any order on one GDELTbase instance, for
\* the files of two tables.
FileTables == {"events", "gkg"}
TableFiles == {RawFileName(TestStamp, t) : t \in FileTables}

\* the extracted content of an archive the feed serves
ServedData(table) == [decodes |-> TRUE, rows |-> <<ValidRow(table)>>]

FileDone(lf, raw, clean, ret, fetched) ==
  [lf |-> lf, raw |-> raw, clean |-> clean, ret |-> ret, fetched |-> fetched]

\* downloadGDELTFile without its isFileDownloaded test
downloadGDELTFileAgain(lf, raw, clean, fileName, table, mode, found) ==
  IF ~found
    THEN FileDone(lf, raw, clean, "False", FALSE)
    ELSE FileDone([lf EXCEPT ![table][RawState(mode)] = Append(@, fileName)],
                  WriteFile(raw, table, mode, fileName, ServedData(table)),
                  clean, "True", TRUE)

\* downloadGDELTFile(thisUrl, table, mode = mode) for the URL of fileName;
\* found = the URL resolves (no HTTPError)
downloadGDELTFileCall(lf, raw, clean, fileName, table, mode, found) ==
  IF isFileDownloaded(lf, fileName, extensionToTableName(fileName))
    THEN FileDone(lf, raw, clean, "False", FALSE)
  ELSE IF ~found
    THEN FileDone(lf, raw, clean, "False", FALSE)
  ELSE FileDone([lf EXCEPT ![table][RawState(mode)] = Append(@, fileName)],
                WriteFile(raw, table, mode, fileName, ServedData(table)),
                clean, "True", TRUE)

\* cleanTable's loop over its snapshot of the raw list, from position i;
\* an exception of cleanFile ends it
RECURSIVE CleanTableLoop(_, _, _, _, _)
CleanTableStep(snapshot, i, deleteRaw, removeFails, r) ==
  IF r.ret = "raise"
    THEN FileDone(r.lf, r.raw, r.clean, "raise", FALSE)
    ELSE CleanTableLoop(snapshot, i + 1,
                        FileDone(r.lf, r.raw, r.clean, "None", FALSE),
                        deleteRaw, removeFails)
CleanTableLoop(snapshot, i, st, deleteRaw, removeFails) ==
  IF i > Len(snapshot)
    THEN st
    ELSE CleanTableStep(snapshot, i, deleteRaw, removeFails,
                        cleanFileCall(st.lf, st.raw, st.clean, snapshot[i],
                                      deleteRaw, "batch", removeFails))

\* cleanTable(table, deleteRaw)
cleanTable(lf, raw, clean, table, deleteRaw, removeFails) ==
  CleanTableLoop(lf[table].raw, 1, FileDone(lf, raw, clean, "None", FALSE),
                 deleteRaw, removeFails)

\* wipeLocalFiles' stateDict, and the directory behind each list
WipeStates == {"raw", "clean", "both", "realtime", "all"}
StateList(state) ==
  CASE state = "raw" -> <<"raw">>
    [] state = "clean" -> <<"clean">>
    [] state = "both" -> <<"raw", "clean">>
    [] state = "realtime" -> <<"realtimeR", "realtimeC">>
    [] state = "all" -> <<"raw", "clean", "realtimeR", "realtimeC">>
IsRawState(st) == st \in {"raw", "realtimeR"}
ModeOf(st) == IF st \in {"raw", "clean"} THEN "batch" ELSE "realtime"
NamesIn(s, table, st) ==
  {f.name : f \in (IF IsRawState(st) THEN s.raw ELSE s.clean)[table][ModeOf(st)]}

\* one file of a directory wiped: os.remove (OSError caught, the file and
\* its index entry stay), then list.remove, whose ValueError is not caught
WipeFile(s, table, st, name, removeFails) ==
  IF removeFails THEN s
  ELSE IF name \notin SeqRange(s.lf[table][st])
    THEN FileDone(s.lf,
                  IF IsRawState(st)
                    THEN RemoveFile(s.raw, table, ModeOf(st), name)
                    ELSE s.raw,
                  IF IsRawState(st)
                    THEN s.clean
                    ELSE RemoveFile(s.clean, table, ModeOf(st), name),
                  "raise", FALSE)
  ELSE FileDone([s.lf EXCEPT ![table][st] = Remove(@, name)],
                IF IsRawState(st)
                  THEN RemoveFile(s.raw, table, ModeOf(st), name)
                  ELSE s.raw,
                IF IsRawState(st)
                  THEN s.clean
                  ELSE RemoveFile(s.clean, table, ModeOf(st), name),
                "None", FALSE)

\* the loop over os.listdir of one directory
RECURSIVE WipeDir(_, _, _, _, _)
WipeDir(names, s, table, st, removeFails) ==
  IF names = {} \/ s.ret = "raise"
    THEN s
    ELSE WipeDir(names \ {CHOOSE n \in names : TRUE},
                 WipeFile(s, table, st, CHOOSE n \in names : TRUE,
                          removeFails),
                 table, st, removeFails)

\* the loops over tableList and over the lists of the state
RECURSIVE WipeStateLoop(_, _, _, _, _)
WipeStateLoop(sl, j, s, table, removeFails) ==
  IF j > Len(sl) \/ s.ret = "raise"
    THEN s
    ELSE WipeStateLoop(sl, j + 1,
                       WipeDir(NamesIn(s, table, sl[j]), s, table, sl[j],
                               removeFails),
                       table, removeFails)
RECURSIVE WipeTableLoop(_, _, _, _, _)
WipeTableLoop(tl, i, s, state, removeFails) ==
  IF i > Len(tl) \/ s.ret = "raise"
    THEN s
    ELSE WipeTableLoop(tl, i + 1,
                       WipeStateLoop(StateList(state), 1, s, tl[i],
                                     removeFails),
                       state, removeFails)

\* wipeLocalFiles(tableList = tl, state = state)
wipeLocalFiles(lf, raw, clean, tl, state, removeFails) ==
  WipeTableLoop(tl, 1, FileDone(lf, raw, clean, "None", FALSE), state,
                removeFails)

\* the instance, the disk and the observation record after an operation
ApplyFileOp(r, op, fileName, mode, deleteRaw) ==
  /\ localFiles' = r.lf
  /\ rawDisk' = r.raw
  /\ cleanDisk' = r.clean
  /\ fileOp' = [op |-> op, fileName |-> fileName, mode |-> mode,
                ret |-> r.ret, fetched |-> r.fetched, deleteRaw |-> deleteRaw]
  /\ UNCHANGED <<tableList, realtimeStarted, realtimeLooping, realtimeWindow,
                 lastRealDatetime, nextRealDatetime, realtimeColl, pc,
                 loopReturn, cycle, run, calls, wait, codecVars, cleanCall,
                 cleanCalls>>

DownloadGDELTFile(fileName, mode, found) ==
  \E r \in {downloadGDELTFileCall(localFiles, rawDisk, cleanDisk, fileName,
                                  extensionToTableName(fileName), mode,
                                  found)} :
    ApplyFileOp(r, "download", fileName, mode, FALSE)

CleanLocalFile(fileName, deleteRaw, mode, removeFails) ==
  /\ removeFails => deleteRaw
  /\ \E c \in {cleanFileCall(localFiles, rawDisk, cleanDisk, fileName,
                              deleteRaw, mode, removeFails)} :
       ApplyFileOp(FileDone(c.lf, c.raw, c.clean, c.ret, FALSE), "cleanFile",
                   fileName, mode, deleteRaw)

CleanTable(table, deleteRaw, removeFails) ==
  /\ removeFails => deleteRaw
  /\ \E r \in {cleanTable(localFiles, rawDisk, cleanDisk, table, deleteRaw,
                           removeFails)} :
       ApplyFileOp(r, "cleanTable", RawFileName(NoTime, table), "batch",
                   deleteRaw)

WipeLocalFiles(tl, state, removeFails) ==
  \E r \in {wipeLocalFiles(localFiles, rawDisk, cleanDisk, tl, state,
                            removeFails)} :
    ApplyFileOp(r, "wipeLocalFiles", <<NoTime, state>>, "", FALSE)

UpdateLocalFilesIndex ==
  \E lf \in {updateLocalFilesIndex(rawDisk, cleanDisk)} :
    ApplyFileOp(FileDone(lf, rawDisk, cleanDisk, "None", FALSE),
                "updateLocalFilesIndex", <<NoTime, "">>, "", FALSE)

WipeTableLists == {<<t>> : t \in FileTables} \cup {<<"events", "gkg">>}

FilesInit ==
  /\ SchedInit
  /\ NoCleaning
  /\ x = <<>> /\ fn = "none" /\ y = NoOutput

FilesNext ==
  \/ \E fileName \in TableFiles, mode \in Modes, found \in BOOLEAN :
       DownloadGDELTFile(fileName, mode, found)
  \/ \E fileName \in TableFiles, deleteRaw \in BOOLEAN, mode \in Modes,
        removeFails \in BOOLEAN :
       CleanLocalFile(fileName, deleteRaw, mode, removeFails)
  \/ \E table \in FileTables, deleteRaw \in BOOLEAN, removeFails \in BOOLEAN :
       CleanTable(table, deleteRaw, removeFails)
  \/ \E tl \in WipeTableLists, state \in WipeStates, removeFails \in BOOLEAN :
       WipeLocalFiles(tl, state, removeFails)
  \/ UpdateLocalFilesIndex

SpecFiles == FilesInit /\ [][FilesNext]_vars

\* ------------------------------------------------------------------ claims
\* the observation record describes a cycle of the current run
CycleOfRun == run.cycles >= 1 /\ cycle.n = run.cycles
InLoopEDA == run.caller = "loopEDA" /\ CycleOfRun
GapStart == 1365                        \* 22:45 as minutes of the day
GapLength == 75                         \* 22:45 to 00:00 of the next day

\* C1: a non-final cycle that ran to its end on a manifest timestamp T of the
\* 15-minute grid remembers T + 15 minutes and returns 'continue' when T is
\* before 22:45, and remembers 00:00 of the following day and returns 'inGap'
\* when T is 22:45.
C1_CadenceArithmetic ==
  (CycleOfRun /\ Ingested(cycle) /\ ~cycle.lastRun
     /\ cycle.thisDatetime % CadenceMinutes = 0) =>
    LET T == cycle.thisDatetime IN
    /\ (T % DayMinutes < GapStart =>
          /\ nextRealDatetime = T + CadenceMinutes
          /\ cycle.result.tag = "continue")
    /\ (T % DayMinutes = GapStart =>
          /\ nextRealDatetime = T + GapLength
          /\ cycle.result.tag = "inGap")

\* C2: in a loopEDA run, the poll that follows the cycle which ingested the
\* 22:45 snapshot and observes the 00:00 snapshot of the following day is
\* accepted and ingested: it is not classified tooLate and does not end the
\* run with a failure.
C2_GapPollAccepted ==
  (InLoopEDA /\ cycle.n > 1 /\ cycle.polled
     /\ cycle.before.last # NoTime
     /\ cycle.before.last % DayMinutes = GapStart
     /\ cycle.thisDatetime = cycle.before.last + GapLength) =>
    /\ cycle.classified # "tooLate"
    /\ Ingested(cycle)
    /\ run.end \in {"", "finished"}

\* C3: a non-first cycle that reads the timestamp of the previously ingested
\* cycle returns (False, 'tooEarly') and leaves realtimeWindow as it was
\* before the call.
C3_TooEarlyKeepsWindow ==
  (CycleOfRun /\ cycle.n > 1 /\ cycle.polled
     /\ cycle.before.last # NoTime
     /\ cycle.thisDatetime = cycle.before.last) =>
    /\ cycle.result = Return(FALSE, "tooEarly")
    /\ realtimeWindow = cycle.before.window

\* C4: a cycle of loopEDA's polling loop that finds the manifest unchanged
\* does not end the run: loopEDA is in its back-off or about to poll again.
C4_TooEarlyRecoverable ==
  (InLoopEDA /\ cycle.n > 1 /\ cycle.classified = "tooEarly") =>
    /\ pc \in {"backoff", "loop"}
    /\ run.end = ""

\* C5: in a loopEDA run a non-first cycle that reads a timestamp later than
\* the remembered expected one is classified tooLate and loopEDA returns
\* False; a polling loop that has stopped stopped on 'finished' or 'tooLate'.
C5_TooLateTerminal ==
  /\ (InLoopEDA /\ cycle.n > 1 /\ cycle.polled
        /\ cycle.before.next # NoTime
        /\ cycle.thisDatetime > cycle.before.next) =>
       /\ cycle.classified = "tooLate"
       /\ pc = "idle"
       /\ loopReturn = "False"
  /\ (InLoopEDA /\ cycle.n > 1 /\ pc = "idle") =>
       run.end \in {"finished", "tooLate"}

\* C6: in a loopEDA run over a window of N snapshots the reports are
\* generated and 'finished' is returned in the cycle that ingests the N-th
\* snapshot and in no other; a tooEarly retry leaves the run going with
\* N minus the ingested snapshots still to collect.
C6_FinishedAtNthSnapshot ==
  InLoopEDA =>
    /\ (run.end = "finished" => run.ingested = run.window /\ run.reports = 1)
    /\ (run.end # "finished" => run.ingested < run.window /\ run.reports = 0)
    /\ (cycle.n > 1 /\ cycle.classified = "tooEarly" =>
          /\ run.end = ""
          /\ realtimeWindow = run.window - run.ingested)

\* C7: in every run the first cycle drops the realtime collection of each
\* requested table before writing to it, and no later cycle of the run
\* drops it.
C7_FirstCycleClears ==
  (CycleOfRun /\ Ingested(cycle)) =>
    \A t \in SeqRange(tableList) :
      /\ cycle.dropped[t] <=> (cycle.n = 1)
      /\ (cycle.n = 1 /\ cycle.stored[t]) =>
            realtimeColl[t] = <<cycle.thisDatetime>>

\* C8: the first cycle of a run makes no timing comparison: it is never
\* classified tooEarly or tooLate.
C8_FirstCycleUnclassified ==
  (CycleOfRun /\ cycle.n = 1) =>
    cycle.classified \notin {"tooEarly", "tooLate"}

ListParsers == {"themeSplitter", "locationsSplitter", "personsSplitter",
                "organizationsSplitter", "countSplitter"}

\* a raw string of one or more non-empty items, each followed by ';'
Terminated(v) ==
  /\ v # Null
  /\ Len(v) > 0
  /\ v[Len(v)] = ";"
  /\ \A i \in 1..Len(v) : v[i] = ";" => (i > 1 /\ v[i - 1] # ";")

ItemCount(v) == Cardinality({i \in 1..Len(v) : v[i] = ";"})

\* C9: a list converter given n items, each followed by ';', returns
\* exactly n parsed items.
C9_TerminalSeparator ==
  (fn \in ListParsers /\ Terminated(x) /\ y.kind = "list") =>
    Len(y.items) = ItemCount(x)

\* the tokens of an item read position by position: split on '#', the
\* trailing empty token discarded
PositionTokens(substring) ==
  LET tokens == Split(substring, "#") IN
  IF tokens[Len(tokens)] = <<>> THEN SubSeq(tokens, 1, Len(tokens) - 1)
  ELSE tokens

PositionWise(item, substring, attrs, kinds) ==
  LET tokens == PositionTokens(substring) IN
  \A k \in 1..Len(attrs) :
    item[attrs[k]] =
      IF k <= Len(tokens) /\ tokens[k] # <<>>
        THEN IF kinds[k] = "str" THEN StrValue(tokens[k])
             ELSE NumValue(kinds[k], tokens[k])
        ELSE Absent

Coercible(substring, kinds) ==
  LET tokens == PositionTokens(substring) IN
  \A k \in 1..Len(tokens) :
    (k <= Len(kinds) /\ kinds[k] # "str" /\ tokens[k] # <<>>) =>
      IsNumeric(tokens[k])

\* C10: in every item of a location or count string, the token at position
\* k after splitting on '#' fills attribute k and no other, and attributes
\* past the last token are absent.
C10_PositionWise ==
  (fn \in {"locationsSplitter", "countSplitter"} /\ x # Null
     /\ y.kind = "list") =>
    LET substrings == Split(x, ";")
        attrs == IF fn = "locationsSplitter" THEN LocationAttrs
                 ELSE CountAttrs
        kinds == IF fn = "locationsSplitter" THEN LocationKinds
                 ELSE CountKinds
    IN
    \A i \in 1..Len(substrings) :
      (i <= Len(y.items) /\ Coercible(substrings[i], kinds)) =>
        PositionWise(y.items[i], substrings[i], attrs, kinds)

\* C11: for a non-null tone string with fewer than 7 comma-separated
\* positions toneSplitter returns a dict whose seven attributes are all
\* absent.
C11_ShortToneAllAbsent ==
  (fn = "toneSplitter" /\ x # Null /\ Len(Split(x, ",")) < TonePositions) =>
    /\ y.kind = "dict"
    /\ \A a \in SeqRange(ToneAttrs) : y.items[1][a] = Absent

\* a tone string of fewer than 7 positions, one of them a number, parsed
C11_Witness ==
  /\ fn = "toneSplitter" /\ x # Null
  /\ Len(Split(x, ",")) \in 2..(TonePositions - 1)
  /\ \E k \in 1..Len(Split(x, ",")) : IsNumeric(Split(x, ",")[k])
  /\ y.kind = "dict"

\* C12: for null input and for the empty string every compound parser returns
\* its empty value: locationsSplitter and countSplitter an empty list, the
\* three tag-list parsers an empty list or the single-blank placeholder list,
\* toneSplitter a dict of seven absent attributes; never a null value and
\* never a list holding an all-absent dict.
C12_NullBlankEmptyValue ==
  (x \in {Null, <<>>} /\ fn \in ListParsers \cup {"toneSplitter"}) =>
    /\ fn \in {"locationsSplitter", "countSplitter"} =>
         y.kind = "list" /\ Len(y.items) = 0
    /\ fn \in {"themeSplitter", "personsSplitter", "organizationsSplitter"} =>
         y.kind = "list" /\ (Len(y.items) = 0 \/ y.items = <<Blank>>)
    /\ fn = "toneSplitter" =>
         /\ y.kind = "dict"
         /\ \A a \in SeqRange(ToneAttrs) : y.items[1][a] = Absent

\* C13: the six compound-field parsers are total: whatever the input string,
\* also one whose numeric position holds a token that is not a number, the
\* parser returns a value and does not raise; an empty tone token gives an
\* absent attribute.
C13_ParsersTotal ==
  (fn \in ListParsers \cup {"toneSplitter"}) =>
    /\ y.kind # "raise"
    /\ (fn = "toneSplitter" /\ y.kind = "dict") =>
         \A k \in 1..TonePositions :
            (k <= Len(Split(x, ",")) /\ Split(x, ",")[k] = <<>>) =>
              y.items[1][ToneAttrs[k]] = Absent

\* C14: llConverter returns the number the token denotes once every '#' is
\* removed, returns absent for a null token, and returns absent without
\* raising when nothing remains after the removal, as for the token '#'.
C14_LlConverterStrips ==
  (fn = "llConverter") =>
    /\ x = Null => y.kind = "None"
    /\ (x # Null /\ IsNumeric(Strip(x, "#"))) =>
         /\ y.kind = "float"
         /\ y.items[1] = NumValue("float", Strip(x, "#"))
    /\ (x # Null /\ Strip(x, "#") = <<>>) => y.kind = "None"

\* the most recent cleanFile call, and what the disk and the index of its
\* table and mode hold after it
Called == cleanCall.ret # "none"
CleanName == CleanFileName(cleanCall.fileName, cleanCall.table)
CleanIndex(lf) == lf[cleanCall.table][CleanState(cleanCall.mode)]
Untouched ==
  /\ localFiles = cleanCall.lfBefore
  /\ rawDisk = cleanCall.rawBefore
  /\ cleanDisk = cleanCall.cleanBefore

\* C15: a cleanFile call whose clean name is already in the clean index of
\* its mode returns False without raising and leaves the clean output, the
\* raw file and every localFiles list unchanged; a call that follows a
\* successful call for the same file and mode is such a skip.
C15_SkipIfPresent ==
  /\ (Called /\ cleanCall.wasClean) =>
       cleanCall.ret = "False" /\ Untouched
  /\ (Called /\ cleanCall.afterSuccess) =>
       cleanCall.wasClean /\ cleanCall.ret = "False" /\ Untouched

\* a second call for a file the first call cleaned
C15_Witness ==
  /\ Called /\ cleanCall.afterSuccess /\ cleanCall.ret = "False"
  /\ OnDisk(cleanDisk, cleanCall.table, cleanCall.mode, CleanName)

\* C16: a cleanFile call that returns False has written no clean output and
\* left the clean index as it was, and a call that returns True leaves the
\* clean output on disk and its name in the clean index; also when
\* deleteRaw is set and deleting the raw file fails.
C16_NoPartialCommit ==
  /\ (Called /\ cleanCall.ret = "False") =>
       /\ ~cleanCall.wrote
       /\ cleanDisk = cleanCall.cleanBefore
       /\ CleanIndex(localFiles) = CleanIndex(cleanCall.lfBefore)
  /\ (Called /\ cleanCall.ret = "True") =>
       /\ OnDisk(cleanDisk, cleanCall.table, cleanCall.mode, CleanName)
       /\ CleanName \in SeqRange(CleanIndex(localFiles))

\* C17: whatever the content of the raw file, of any table, cleanFile
\* returns a boolean to its caller and does not raise.
C17_NoFaultEscapes ==
  Called => cleanCall.ret \in {"True", "False"}

\* the call read the raw file: it was on disk and its clean name not indexed
ReadRaw == Called /\ cleanCall.wasRaw /\ ~cleanCall.wasClean
Decoded == ReadRaw /\ readCsv(cleanCall.table, cleanCall.content).exc = ""
\* the raw positions of a row that hold a token
Populated(row) == Cardinality({c \in DOMAIN row : row[c] # <<>>})
\* the raw rows of the file whose DataFrame rows pass the threshold filter
KeptRows ==
  {r \in SeqRange(cleanCall.content.rows) : KeepsRow(ReadRow("gkg", r))}
\* the clean output the call left
Output == DataOf(cleanDisk, cleanCall.table, cleanCall.mode, CleanName)

\* C18: in GKG cleaning a row populated in fewer than 5 raw positions is
\* removed by the threshold filter and is not in the clean output.
C18_ThresholdDropsJunk ==
  (Decoded /\ cleanCall.table = "gkg") =>
    /\ \A r \in KeptRows : Populated(r) >= DropThreshold
    /\ cleanCall.wrote =>
         \A r \in SeqRange(cleanCall.content.rows) :
            Populated(r) < DropThreshold =>
              GkgConvertDate(ReadRow("gkg", r)) \notin SeqRange(Output)

\* a GKG row whose record timestamp parses
ValidGkgRow(r) ==
  /\ Populated(r) >= DropThreshold
  /\ dtConverter(r.V21DATE).kind = "datetime"

\* C19: when the decode of a GKG file succeeds and at least one row is
\* valid, cleanFile writes a clean output holding every valid row and
\* returns True, also when another row has an unparseable timestamp.
C19_MalformedRowKeepsFile ==
  (Decoded /\ cleanCall.table = "gkg" /\ ~cleanCall.deleteRaw
     /\ \E r \in SeqRange(cleanCall.content.rows) : ValidGkgRow(r)) =>
    /\ cleanCall.ret = "True"
    /\ cleanCall.wrote
    /\ \A r \in SeqRange(cleanCall.content.rows) :
         ValidGkgRow(r) =>
           GkgConvertDate(ReadRow("gkg", r)) \in SeqRange(Output)

\* C20: a cleanFile call for a raw file that is not at the raw location of
\* its mode, and whose clean name is not in the clean index, returns False
\* without raising, writes no output and leaves every localFiles list
\* unchanged.
C20_NotFoundReported ==
  (Called /\ ~cleanCall.wasRaw /\ ~cleanCall.wasClean) =>
    /\ cleanCall.ret = "False"
    /\ ~cleanCall.wrote
    /\ cleanDisk = cleanCall.cleanBefore
    /\ localFiles = cleanCall.lfBefore

\* a call for a file of a table whose raw directory is empty
C20_Witness ==
  /\ Called /\ ~cleanCall.wasRaw /\ ~cleanCall.wasClean
  /\ cleanCall.ret = "False"
  /\ rawDisk[cleanCall.table][cleanCall.mode] = {}

\* the requested tables whose download was asked of the feed in the cycle c
\* that began with the index lf, and was answered 'not found'
DownloadFailed(lf, c) ==
  {t \in SeqRange(tableList) \cap c.notFound :
     ~isFileDownloaded(lf, RawFileName(c.thisDatetime, t), t)}

\* C21: a cycle that passes the timing check with MongoDB reachable and in
\* which the download of some table's file is not found returns its normal
\* (True, 'continue' | 'inGap' | 'finished'); that table is neither cleaned
\* nor stored, and every table whose file is found is cleaned and stored.
C21_MissingTableSkipped ==
  [][(/\ calls' = calls + 1
      /\ cycle'.classified = "proceed"
      /\ cycle'.sinkUp
      /\ DownloadFailed(localFiles, cycle') # {}) =>
       /\ Ingested(cycle')
       /\ \A t \in DownloadFailed(localFiles, cycle') :
            ~cycle'.downloaded[t] /\ ~cycle'.cleaned[t] /\ ~cycle'.stored[t]
       /\ \A t \in SeqRange(tableList) \ cycle'.notFound :
            /\ cycle'.stored[t]
            /\ CleanFileName(RawFileName(cycle'.thisDatetime, t), t)
                 \in SeqRange(localFiles'[t].realtimeC)]_vars

\* C22: a cycle that passes the timing check while MongoDB is unreachable,
\* the first cycle of a run included, does not raise: it stores nothing, it
\* returns, and a loopEDA run that has snapshots left to collect goes on.
C22_SinkDownNoCrash ==
  (CycleOfRun /\ cycle.classified = "proceed" /\ ~cycle.sinkUp) =>
    /\ cycle.result.kind = "return"
    /\ \A t \in Tables : ~cycle.stored[t]
    /\ (InLoopEDA /\ ~cycle.lastRun) => run.end = ""

\* 1 hour 15 minutes, in seconds
LongestWait == 4500

\* C23: a wait of loopEDA for the next update sleeps in steps of at most 60
\* seconds, ends at nextRealDatetime and lasts at most 1 hour 15 minutes,
\* wherever the clock stands relative to nextRealDatetime when it begins.
C23_WaitBounded ==
  wait.kind = "wait" =>
    /\ wait.exc = ""
    /\ wait.longest <= SleepStep
    /\ wait.now + wait.slept = wait.next
    /\ wait.slept <= LongestWait

\* C26: a first cycle of a run (no timing comparison) reading a timestamp
\* of the 15-minute grid completes without raising; the prior snapshot it
\* forms is 22:45 of the previous day (1 hour 15 minutes earlier) when the
\* timestamp is 00:00 and 15 minutes earlier otherwise.
C26_PriorSnapshot ==
  (CycleOfRun /\ cycle.n = 1 /\ cycle.polled
     /\ cycle.thisDatetime % CadenceMinutes = 0) =>
    /\ cycle.result.kind = "return"
    /\ cycle.prior = IF cycle.thisDatetime % DayMinutes = 0
                       THEN cycle.thisDatetime - GapLength
                       ELSE cycle.thisDatetime - CadenceMinutes

\* C27: while every realtimeEDA call made on the instance belongs to the
\* current run, no table's realtime collection holds the records of one
\* snapshot twice.
C27_SnapshotStoredOnce ==
  (CycleOfRun /\ calls = run.cycles) =>
    \A t \in Tables :
      \A i, j \in 1..Len(realtimeColl[t]) :
        i # j => realtimeColl[t][i] # realtimeColl[t][j]

\* C28: a cycle classified tooEarly or tooLate downloads, cleans, stores
\* and drops nothing, and leaves lastRealDatetime, nextRealDatetime, the
\* local file index, the data files and the collections as they were.
C28_RejectedCycleNoEffect ==
  [][(calls' = calls + 1 /\ cycle'.classified \in {"tooEarly", "tooLate"}) =>
       /\ \A t \in Tables :
            /\ ~cycle'.downloaded[t] /\ ~cycle'.cleaned[t]
            /\ ~cycle'.stored[t] /\ ~cycle'.dropped[t]
       /\ lastRealDatetime' = lastRealDatetime
       /\ nextRealDatetime' = nextRealDatetime
       /\ localFiles' = localFiles
       /\ realtimeColl' = realtimeColl
       /\ rawDisk' = rawDisk /\ cleanDisk' = cleanDisk]_vars

\* a cycle was classified tooLate after earlier cycles filled the index and
\* the collections
C28_Witness ==
  /\ cycle.classified = "tooLate"
  /\ \E t \in Tables : localFiles[t].realtimeC # <<>> /\ realtimeColl[t] # <<>>

TagListParsers == {"themeSplitter", "personsSplitter", "organizationsSplitter"}

\* C24: for the null input and for the empty string the three tag-list
\* parsers agree: what one of them returned is what each of themeSplitter,
\* personsSplitter and organizationsSplitter returns for that input.
C24_TagListParsersAgree ==
  (fn \in TagListParsers /\ x \in {Null, <<>>}) =>
    /\ y = themeSplitter(x)
    /\ y = personsSplitter(x)
    /\ y = organizationsSplitter(x)

\* C25: in the clean output of an Events file each of the six coordinate
\* columns of a row holds llConverter of the raw token of that same column
\* of that row.
C25_CoordinatesOwnColumn ==
  (Decoded /\ cleanCall.table = "events" /\ cleanCall.wrote) =>
    /\ Len(Output) = Len(cleanCall.content.rows)
    /\ \A i \in 1..Len(Output) : \A c \in GeoColumns :
         Output[i][c] = llConverter(CellInput(Cell(cleanCall.content.rows[i][c])))

\* the table of the file of the most recent data file operation
FileTable == extensionToTableName(fileOp.fileName)

\* C29: after a cleanFile(f, deleteRaw = True) call that returned True,
\* isFileDownloaded(f) is true and a downloadGDELTFile call for f's URL, in
\* either mode, returns False without fetching.
C29_CleanedCountsAsDownloaded ==
  (fileOp.op = "cleanFile" /\ fileOp.ret = "True" /\ fileOp.deleteRaw) =>
    /\ isFileDownloaded(localFiles, fileOp.fileName, FileTable)
    /\ \A mode \in Modes :
         LET later == downloadGDELTFileCall(localFiles, rawDisk, cleanDisk,
                                            fileOp.fileName, FileTable, mode,
                                            TRUE)
         IN later.ret = "False" /\ ~later.fetched

States == {"raw", "clean", "realtimeR", "realtimeC"}
NoDuplicate(l) == \A i, j \in 1..Len(l) : i # j => l[i] # l[j]
InBothRawLists(lf, t, name) ==
  name \in SeqRange(lf[t].raw) /\ name \in SeqRange(lf[t].realtimeR)

\* C30: whatever data file operations are called, in either mode, no
\* localFiles list holds a file name twice, and no downloadGDELTFile call
\* leaves a raw file name in both the batch and the realtime raw list of its
\* table unless it was in both before the call.
C30_IndexHasNoDuplicates ==
  /\ [](\A t \in Tables : \A st \in States : NoDuplicate(localFiles[t][st]))
  /\ [][fileOp'.op = "download" =>
         \A t \in Tables : \A name \in TableFiles :
           InBothRawLists(localFiles', t, name) =>
             InBothRawLists(localFiles, t, name)]_vars

\* a download was refused for a name the index already holds
C30_Witness ==
  /\ fileOp.op = "download" /\ fileOp.ret = "False"
  /\ fileOp.fileName \in SeqRange(localFiles[FileTable][RawState("batch")])
  /\ fileOp.mode = "realtime"

====
